---- MODULE Spec2Model ----
(***************************************************************************)
(* A model of the imabi structural extraction and reformatting pipeline:   *)
(* HTMLCleaner (content_fetcher.py), ContentFormatter (text_processor.py), *)
(* IndexProcessor (index_processor.py), LessonFormatter                    *)
(* (lesson_processor.py).                                                  *)
(*                                                                         *)
(* A document tree is modelled by its serialisation: a balanced sequence   *)
(* of tokens (open tag, close tag, void tag, one character of text).  A    *)
(* Python str is a sequence of one-character strings.  The two CJK glyphs  *)
(* of the lesson marker are written "DAI" (U+7B2C) and "KA" (U+8AB2),      *)
(* each standing for one character.                                        *)
(***************************************************************************)
EXTENDS Integers, Sequences, FiniteSets, TLC

VARIABLES
    \* IndexProcessor at the level of one index paragraph
    paragraph,      \* the <p> element given to the splitter (its contents)
    start_number,   \* start_number of _extract_links_from_paragraphs
    paragraphs,     \* the <p> elements returned by _break_paragraph_by_br
    lessons,        \* the list returned by _extract_links_from_paragraphs
    reflowed,       \* what _replace_multiple_br_tags puts in the paragraph's place
    para_pc,
    \* IndexProcessor._extract_sectioned_index over a whole index tree
    content_div,            \* the tree given to process_index
    elements,               \* content_div.find_all(["h1", ..., "h6", "p"])
    elem_i,                 \* the element the for loop is at
    sections,               \* the dict, as the list of its items in insertion order
    current_section,
    overall_lesson_counter,
    lesson_dict,            \* the mapping returned
    index_pc,
    \* HTMLCleaner.clean_structure
    clean_src,      \* the tree as fetched
    clean_tree,     \* content_div, mutated in place
    clean_first,    \* the tree as the first call left it
    clean_calls,    \* calls of clean_structure made so far
    \* one page through clean_structure and LessonFormatter.format_lesson
    fmt_title,      \* title
    fmt_chapter,    \* chapter
    fmt_path_part,  \* path_part
    is_glossary,
    fmt_trace,      \* content after each step so far, the fetched tree first
    fmt_xhtml,      \* the document returned by _wrap_xhtml
    fmt_pc,
    \* ImabiProcessor.process_full_site
    config,                 \* generate_epub and test_mode of the ProcessingConfig
    processed_content,      \* the dict, as the list of its items in insertion order
    all_processed_images,   \* the chapter_str of every process_images call added
    lesson_data,            \* the lessons of the mapping process_index returned
    lessons_to_process,
    lesson_at,              \* the lesson the loop of _process_lessons is at
    fetch_log,              \* every page asked of the fetcher, with what came of it
    saved_files,            \* the names written by _save_xhtml_files
    site_error,             \* the exception process_full_site ended with
    site_result,            \* what process_full_site returned
    site_pc

paraVars == <<paragraph, start_number, paragraphs, lessons, reflowed, para_pc>>

indexVars == <<content_div, elements, elem_i, sections, current_section,
               overall_lesson_counter, lesson_dict, index_pc>>

cleanVars == <<clean_src, clean_tree, clean_first, clean_calls>>

fmtVars == <<fmt_title, fmt_chapter, fmt_path_part, is_glossary, fmt_trace,
             fmt_xhtml, fmt_pc>>

siteVars == <<config, processed_content, all_processed_images, lesson_data,
              lessons_to_process, lesson_at, fetch_log, saved_files, site_error,
              site_result, site_pc>>

vars == <<paraVars, indexVars, cleanVars, fmtVars, siteVars>>

-----------------------------------------------------------------------------
(* Bounds of the model *)

\* longest index paragraph made of markup tokens (text, <br/>, <em>)
MaxMarkupLen == 6
\* longest index paragraph made of lesson text only
MaxTextLen == 4
\* largest start_number handed to _extract_links_from_paragraphs
MaxStart == 2
\* most top-level nodes of an index tree
MaxElems == 6
\* most tokens of a tree given to the cleaner
MaxCleanLen == 6
\* most top-level blocks of a page given to the formatter
MaxBlocks == 3
\* longest page title
MaxTitleLen == 3
\* most parts an anchor's href is put together from
MaxHrefParts == 3

-----------------------------------------------------------------------------
(* Python str operations, on sequences of one-character strings *)

Whitespace == {" "}

\* s[i:i+len(sub)] == sub  (i is 1-based)
MatchAt(s, sub, i) ==
    /\ i + Len(sub) - 1 <= Len(s)
    /\ \A k \in 1..Len(sub) : s[i + k - 1] = sub[k]

\* str.find: the least 1-based index >= from where sub occurs, 0 when none
RECURSIVE Find(_, _, _)
Find(s, sub, from) ==
    IF from + Len(sub) - 1 > Len(s) THEN 0
    ELSE IF MatchAt(s, sub, from) THEN from
    ELSE Find(s, sub, from + 1)

\* sub in s
Contains(s, sub) == Find(s, sub, 1) # 0

\* str.startswith
StartsWith(s, pre) == MatchAt(s, pre, 1)

\* str.replace(old, new): every non-overlapping occurrence, left to right
RECURSIVE Replace(_, _, _)
Replace(s, old, new) ==
    LET i == Find(s, old, 1) IN
    IF old = <<>> \/ i = 0 THEN s
    ELSE SubSeq(s, 1, i - 1) \o new
         \o Replace(SubSeq(s, i + Len(old), Len(s)), old, new)

\* str.split(sep, maxsplit): the list of parts; maxsplit < 0 is no limit
RECURSIVE Split(_, _, _)
Split(s, sep, maxsplit) ==
    LET i == Find(s, sep, 1) IN
    IF maxsplit = 0 \/ i = 0 THEN <<s>>
    ELSE <<SubSeq(s, 1, i - 1)>>
         \o Split(SubSeq(s, i + Len(sep), Len(s)), sep, maxsplit - 1)

\* str.strip() with no argument
RECURSIVE StrLStrip(_)
StrLStrip(s) ==
    IF s # <<>> /\ Head(s) \in Whitespace THEN StrLStrip(Tail(s)) ELSE s

RECURSIVE StrRStrip(_)
StrRStrip(s) ==
    IF s # <<>> /\ s[Len(s)] \in Whitespace
    THEN StrRStrip(SubSeq(s, 1, Len(s) - 1)) ELSE s

StrStrip(s) == StrRStrip(StrLStrip(s))

\* str.strip(chars)
RECURSIVE StripChars(_, _)
StripChars(s, chars) ==
    IF s # <<>> /\ Head(s) \in chars THEN StripChars(Tail(s), chars)
    ELSE IF s # <<>> /\ s[Len(s)] \in chars
    THEN StripChars(SubSeq(s, 1, Len(s) - 1), chars)
    ELSE s

\* "".join(parts)
RECURSIVE Join(_)
Join(parts) == IF parts = <<>> THEN <<>> ELSE Head(parts) \o Join(Tail(parts))

-----------------------------------------------------------------------------
(* Document trees (bs4 Tag / NavigableString) as token sequences *)

Txt(c)   == [t |-> "text",  name |-> c, class |-> "", id |-> <<>>, href |-> <<>>]
Open(n)  == [t |-> "open",  name |-> n, class |-> "", id |-> <<>>, href |-> <<>>]
Close(n) == [t |-> "close", name |-> n, class |-> "", id |-> <<>>, href |-> <<>>]
Void(n)  == [t |-> "void",  name |-> n, class |-> "", id |-> <<>>, href |-> <<>>]
OpenA(h) == [t |-> "open",  name |-> "a", class |-> "", id |-> <<>>, href |-> h]
OpenC(n, c) == [t |-> "open", name |-> n, class |-> c, id |-> <<>>, href |-> <<>>]
\* the boundary between two adjacent NavigableStrings that a mutation of the
\* tree left side by side (bs4 does not merge them); it serialises to nothing
Sep      == [t |-> "sep",   name |-> "", class |-> "", id |-> <<>>, href |-> <<>>]
Br       == Void("br")

IsText(tok)  == tok.t = "text"
IsOpen(tok, n)  == tok.t = "open" /\ tok.name = n
IsClose(tok, n) == tok.t = "close" /\ tok.name = n
IsBr(tok)    == tok.t = "void" /\ tok.name = "br"

\* the characters of a str as text tokens
RECURSIVE TextOf(_)
TextOf(s) == IF s = <<>> THEN <<>> ELSE <<Txt(Head(s))>> \o TextOf(Tail(s))

\* the index of the close tag matching the open tag at i (tree is balanced)
RECURSIVE MatchClose(_, _, _)
MatchClose(tree, j, depth) ==
    IF j > Len(tree) THEN Len(tree) + 1
    ELSE IF tree[j].t = "open" THEN MatchClose(tree, j + 1, depth + 1)
    ELSE IF tree[j].t = "close"
         THEN IF depth = 0 THEN j ELSE MatchClose(tree, j + 1, depth - 1)
    ELSE MatchClose(tree, j + 1, depth)

CloseOf(tree, i) == MatchClose(tree, i + 1, 0)

\* Tag.find(name): the index of the first open tag called name, 0 when none
RECURSIVE FindTag(_, _, _)
FindTag(tree, n, from) ==
    IF from > Len(tree) THEN 0
    ELSE IF IsOpen(tree[from], n) THEN from
    ELSE FindTag(tree, n, from + 1)

\* str(tag) / decode_contents(): string boundaries are not written
RECURSIVE Serialize(_)
Serialize(tree) ==
    IF tree = <<>> THEN <<>>
    ELSE IF Head(tree).t = "sep" THEN Serialize(Tail(tree))
    ELSE <<Head(tree)>> \o Serialize(Tail(tree))

\* the NavigableStrings of a tree in document order, each a str
RECURSIVE AllStrings(_, _)
AllStrings(tree, run) ==
    IF tree = <<>> THEN (IF run = <<>> THEN <<>> ELSE <<run>>)
    ELSE IF IsText(Head(tree))
         THEN AllStrings(Tail(tree), Append(run, Head(tree).name))
    ELSE (IF run = <<>> THEN <<>> ELSE <<run>>) \o AllStrings(Tail(tree), <<>>)

\* Tag.get_text(strip=True): every string stripped, the empty ones skipped
RECURSIVE JoinStripped(_)
JoinStripped(strings) ==
    IF strings = <<>> THEN <<>>
    ELSE StrStrip(Head(strings)) \o JoinStripped(Tail(strings))

GetTextStrip(tree) == JoinStripped(AllStrings(tree, <<>>))

\* str.strip() of serialised markup: whitespace characters at the two ends
IsWs(tok) == IsText(tok) /\ tok.name \in Whitespace

RECURSIVE MarkupLStrip(_)
MarkupLStrip(m) ==
    IF m # <<>> /\ IsWs(Head(m)) THEN MarkupLStrip(Tail(m)) ELSE m

RECURSIVE MarkupRStrip(_)
MarkupRStrip(m) ==
    IF m # <<>> /\ IsWs(m[Len(m)])
    THEN MarkupRStrip(SubSeq(m, 1, Len(m) - 1)) ELSE m

MarkupStrip(m) == MarkupRStrip(MarkupLStrip(m))

\* the close tags html.parser supplies for the elements still open, innermost first
RECURSIVE Closers(_)
Closers(stack) ==
    IF stack = <<>> THEN <<>>
    ELSE <<Close(stack[Len(stack)])>> \o Closers(SubSeq(stack, 1, Len(stack) - 1))

\* the index in the stack of the innermost open element called n, 0 when none
RECURSIVE StackFind(_, _, _)
StackFind(stack, n, k) ==
    IF k = 0 THEN 0
    ELSE IF stack[k] = n THEN k
    ELSE StackFind(stack, n, k - 1)

\* BeautifulSoup("<p>" + markup + "</p>", "html.parser"), the contents of the
\* <p>: an end tag with no open element is dropped (_popToTag finds nothing)
\* after it has ended the string before it (endData), an end tag closes every
\* element opened inside its own, and </p> closes whatever is still open
\* a parser that gives up at the first end tag with no open element
RECURSIVE ParseInnerStrict(_, _)
ParseInnerStrict(markup, stack) ==
    IF markup = <<>> THEN Closers(stack)
    ELSE LET tok == Head(markup) IN
         IF tok.t = "open"
         THEN <<tok>> \o ParseInnerStrict(Tail(markup), Append(stack, tok.name))
         ELSE IF tok.t = "close"
         THEN LET k == StackFind(stack, tok.name, Len(stack)) IN
              IF k = 0 THEN Closers(stack)
              ELSE Closers(SubSeq(stack, k, Len(stack)))
                   \o ParseInnerStrict(Tail(markup), SubSeq(stack, 1, k - 1))
         ELSE <<tok>> \o ParseInnerStrict(Tail(markup), stack)

RECURSIVE ParseInner(_, _)
ParseInner(markup, stack) ==
    IF markup = <<>> THEN Closers(stack)
    ELSE LET tok == Head(markup) IN
         IF tok.t = "open"
         THEN <<tok>> \o ParseInner(Tail(markup), Append(stack, tok.name))
         ELSE IF tok.t = "close"
         THEN LET k == StackFind(stack, tok.name, Len(stack)) IN
              IF k = 0 THEN <<Sep>> \o ParseInner(Tail(markup), stack)
              ELSE Closers(SubSeq(stack, k, Len(stack)))
                   \o ParseInner(Tail(markup), SubSeq(stack, 1, k - 1))
         ELSE <<tok>> \o ParseInner(Tail(markup), stack)

-----------------------------------------------------------------------------
(* IndexProcessor, one paragraph *)

\* the lesson-marker delimiter "課:" and the ordinal glyph "第"
LessonDelimiter == <<"KA", ":">>
OrdinalGlyph == <<"DAI">>
MarkerGlyph == <<"KA">>
NotAvailable == <<"N", "/", "A">>
OrgHost == <<".", "o", "r", "g", "/">>

\* re.split(r"<br\s*/?>", content): the pieces between single <br/> tags
RECURSIVE SplitOnBr(_, _)
SplitOnBr(content, piece) ==
    IF content = <<>> THEN <<piece>>
    ELSE IF IsBr(Head(content)) THEN <<piece>> \o SplitOnBr(Tail(content), <<>>)
    ELSE SplitOnBr(Tail(content), Append(piece, Head(content)))

\* the <p> elements of the re-parsed markup, for the pieces that are not empty
\* once stripped
RECURSIVE ParagraphsOf(_)
ParagraphsOf(children) ==
    IF children = <<>> THEN <<>>
    ELSE LET child == MarkupStrip(Head(children)) IN
         (IF child = <<>> THEN <<>> ELSE <<ParseInner(child, <<>>)>>)
         \o ParagraphsOf(Tail(children))

\* IndexProcessor._break_paragraph_by_br
break_paragraph_by_br(p) == ParagraphsOf(SplitOnBr(Serialize(p), <<>>))

None == [present |-> FALSE, web |-> <<>>, relative |-> <<>>]

\* Tag.unwrap() of the element opened at i: its tags go, its children stay
Unwrap(tree, i) ==
    LET j == CloseOf(tree, i) IN
    SubSeq(tree, 1, i - 1) \o <<Sep>> \o SubSeq(tree, i + 1, j - 1)
    \o <<Sep>> \o SubSeq(tree, j + 1, Len(tree))

\* Tag.decompose() of the element opened at i
Decompose(tree, i) ==
    SubSeq(tree, 1, i - 1) \o <<Sep>>
    \o SubSeq(tree, CloseOf(tree, i) + 1, Len(tree))

\* for em_tag in element.find_all("em"): decompose the ones with no text
RECURSIVE DropEmptyEm(_, _)
DropEmptyEm(tree, from) ==
    LET i == FindTag(tree, "em", from) IN
    IF i = 0 THEN tree
    ELSE IF GetTextStrip(SubSeq(tree, i + 1, CloseOf(tree, i) - 1)) = <<>>
         THEN DropEmptyEm(Decompose(tree, i), i)
    ELSE DropEmptyEm(tree, i + 1)

\* IndexProcessor._extract_link_data: the link of the first anchor, and the
\* element as the call leaves it
extract_link_data(element) ==
    LET i == FindTag(element, "a", 1) IN
    IF i = 0 THEN [link |-> None, element |-> element]
    ELSE LET web_link == element[i].href
             relative_path ==
                 IF Contains(web_link, OrgHost)
                 THEN StripChars(Split(web_link, OrgHost, -1)[2], {"/"})
                 ELSE web_link
         IN [link |-> [present |-> TRUE, web |-> web_link,
                       relative |-> relative_path],
             element |-> DropEmptyEm(Unwrap(element, i), 1)]

\* a parser that shows "N/A" for a text without the delimiter
parse_lesson_text_shows_na(text) ==
    LET parts == Split(text, LessonDelimiter, 1) IN
    IF Len(parts) < 2
    THEN [number |-> NotAvailable, original |-> NotAvailable,
          title |-> StrStrip(text)]
    ELSE LET original_number_part == StrStrip(parts[1]) IN
         [number |-> Replace(original_number_part, OrdinalGlyph, <<>>),
          original |-> original_number_part \o MarkerGlyph,
          title |-> StrStrip(parts[2])]

\* IndexProcessor._parse_lesson_text
parse_lesson_text(text) ==
    LET parts == Split(text, LessonDelimiter, 1) IN
    IF Len(parts) < 2
    THEN [number |-> NotAvailable, original |-> StrStrip(text),
          title |-> StrStrip(text)]
    ELSE LET original_number_part == StrStrip(parts[1]) IN
         [number |-> Replace(original_number_part, OrdinalGlyph, <<>>),
          original |-> original_number_part \o MarkerGlyph,
          title |-> StrStrip(parts[2])]

\* LessonData(number, lesson_number, original_number, title, link_data)
LessonData(number, info, link_data) ==
    [number |-> number, lesson_number |-> info.number,
     original_number |-> info.original, title |-> info.title,
     link_data |-> link_data]

\* IndexProcessor._extract_links_from_paragraphs
extract_links_from_paragraphs(ps, start) ==
    [k \in 1..Len(ps) |->
        LET got == extract_link_data(ps[k])
            lesson_info == parse_lesson_text(GetTextStrip(got.element))
        IN LessonData(start + k - 1, lesson_info, got.link)]

-----------------------------------------------------------------------------
(* ContentFormatter, one paragraph *)

\* BR_REPLACEMENT_PATTERN (<br\s*/?>\s*){2,}: the length of the longest match
\* that starts at the head of html, 0 when fewer than two <br/> stand there
RECURSIVE BrRun(_, _, _)
BrRun(html, n, brs) ==
    IF n < Len(html) /\ IsBr(html[n + 1]) THEN BrRun(html, n + 1, brs + 1)
    ELSE IF n < Len(html) /\ IsWs(html[n + 1]) /\ brs > 0 THEN BrRun(html, n + 1, brs)
    ELSE IF brs >= 2 THEN n ELSE 0

\* BR_REPLACEMENT_PATTERN.sub("</p><p>", html)
RECURSIVE SubBrRuns(_)
SubBrRuns(html) ==
    IF html = <<>> THEN <<>>
    ELSE LET n == BrRun(html, 0, 0) IN
         IF n > 0
         THEN <<Close("p"), Open("p")>> \o SubBrRuns(SubSeq(html, n + 1, Len(html)))
         ELSE <<Head(html)>> \o SubBrRuns(Tail(html))

\* the pieces of markup between "</p><p>" pairs
RECURSIVE SplitOnPBreak(_, _)
SplitOnPBreak(html, piece) ==
    IF html = <<>> THEN <<piece>>
    ELSE IF IsClose(Head(html), "p")
         THEN <<piece>> \o SplitOnPBreak(Tail(Tail(html)), <<>>)
    ELSE SplitOnPBreak(Tail(html), Append(piece, Head(html)))

RECURSIVE ParseEach(_)
ParseEach(pieces) ==
    IF pieces = <<>> THEN <<>>
    ELSE <<ParseInner(Head(pieces), <<>>)>> \o ParseEach(Tail(pieces))

\* ContentFormatter._replace_multiple_br_tags: the contents of the <p>
\* elements of BeautifulSoup("<p>" + html + "</p>") that replace the paragraph;
\* none of them carries an attribute
replace_multiple_br_tags(p) ==
    ParseEach(SplitOnPBreak(SubBrRuns(Serialize(p)), <<>>))

-----------------------------------------------------------------------------
(* The inputs of the paragraph-level specification *)

MarkupLeaves == {Txt("x"), Txt(" "), Br}

\* the balanced token sequences of exactly n tokens over text, <br/> and <em>
RECURSIVE MarkupForest(_)
MarkupForest(n) ==
    IF n = 0 THEN {<<>>}
    ELSE {<<l>> \o f : l \in MarkupLeaves, f \in MarkupForest(n - 1)}
         \cup (IF n < 2 THEN {}
               ELSE UNION {
                   {<<Open("em")>> \o f1 \o <<Close("em")>> \o f2 :
                        f1 \in MarkupForest(k), f2 \in MarkupForest(n - 2 - k)}
                   : k \in 0..(n - 2)})

MarkupParagraphs == UNION {MarkupForest(n) : n \in 0..MaxMarkupLen}

LessonChars == {"DAI", "KA", ":", "1", "G", " "}

RECURSIVE StrOfLen(_)
StrOfLen(n) ==
    IF n = 0 THEN {<<>>}
    ELSE {Append(s, c) : s \in StrOfLen(n - 1), c \in LessonChars}

LessonTexts == UNION {StrOfLen(n) : n \in 0..MaxTextLen}

Href1 == <<"h", ":", "/", "/", "i", ".", "o", "r", "g", "/", "a", "/">>
Href2 == <<"h", ":", "/", "/", "i", ".", "o", "r", "g", "/", "b">>

\* lesson text alone, and the same text inside an anchor; one lesson text
\* inside anchors of other hrefs: the site twice, another host, a path
TextParagraphs ==
    {TextOf(s) : s \in LessonTexts}
    \cup {<<OpenA(Href1)>> \o TextOf(s) \o <<Close("a")>> : s \in LessonTexts}
    \cup {<<OpenA(h), Txt("G"), Close("a")>> :
            h \in {Href1 \o Href2, <<"w">> \o OrgHost \o <<"c">>, <<"/", "c">>}}

\* "第1課: Greetings<br/>第2課: Numbers", an anchor around each segment
ScenarioParagraph ==
    <<OpenA(Href1)>> \o TextOf(<<"DAI", "1", "KA", ":", " ", "G">>) \o <<Close("a")>>
    \o <<Br>>
    \o <<OpenA(Href2)>> \o TextOf(<<"DAI", "2", "KA", ":", " ", "N">>) \o <<Close("a")>>

InputParagraphs == MarkupParagraphs \cup TextParagraphs \cup {ScenarioParagraph}

-----------------------------------------------------------------------------
(* Specification of the paragraph-level operations *)

IndexIdle ==
    /\ content_div = <<>>
    /\ elements = <<>>
    /\ elem_i = 0
    /\ sections = <<>>
    /\ current_section = <<>>
    /\ overall_lesson_counter = 0
    /\ lesson_dict = <<>>
    /\ index_pc = "idle"

ParaIdle ==
    /\ paragraph = <<>>
    /\ start_number = 0
    /\ paragraphs = <<>>
    /\ lessons = <<>>
    /\ reflowed = <<>>
    /\ para_pc = "idle"

CleanIdle ==
    /\ clean_src = <<>>
    /\ clean_tree = <<>>
    /\ clean_first = <<>>
    /\ clean_calls = 0

FmtIdle ==
    /\ fmt_title = <<>>
    /\ fmt_chapter = <<>>
    /\ fmt_path_part = <<>>
    /\ is_glossary = FALSE
    /\ fmt_trace = <<>>
    /\ fmt_xhtml = <<>>
    /\ fmt_pc = "idle"

SiteIdle ==
    /\ config = [generate_epub |-> FALSE, test_mode |-> FALSE]
    /\ processed_content = <<>>
    /\ all_processed_images = <<>>
    /\ lesson_data = <<>>
    /\ lessons_to_process = <<>>
    /\ lesson_at = 0
    /\ fetch_log = <<>>
    /\ saved_files = <<>>
    /\ site_error = ""
    /\ site_result = ""
    /\ site_pc = "idle"

ParaInit ==
    /\ IndexIdle
    /\ CleanIdle
    /\ FmtIdle
    /\ SiteIdle
    /\ paragraph \in InputParagraphs
    /\ start_number \in 1..MaxStart
    /\ paragraphs = <<>>
    /\ lessons = <<>>
    /\ reflowed = <<>>
    /\ para_pc = "start"

\* paragraphs = self._break_paragraph_by_br(element)
BreakParagraphByBr ==
    /\ para_pc = "start"
    /\ paragraphs' = break_paragraph_by_br(paragraph)
    /\ para_pc' = "split"
    /\ UNCHANGED <<paragraph, start_number, lessons, reflowed>>
    /\ UNCHANGED <<indexVars, cleanVars, fmtVars, siteVars>>

\* lessons = self._extract_links_from_paragraphs(paragraphs, start_number)
ExtractLinksFromParagraphs ==
    /\ para_pc = "split"
    /\ lessons' = extract_links_from_paragraphs(paragraphs, start_number)
    /\ para_pc' = "lessons"
    /\ UNCHANGED <<paragraph, start_number, paragraphs, reflowed>>
    /\ UNCHANGED <<indexVars, cleanVars, fmtVars, siteVars>>

\* self._replace_multiple_br_tags(p), the formatter's use of the same paragraph
ReplaceMultipleBrTags ==
    /\ para_pc = "start"
    /\ reflowed' = replace_multiple_br_tags(paragraph)
    /\ para_pc' = "reflowed"
    /\ UNCHANGED <<paragraph, start_number, paragraphs, lessons>>
    /\ UNCHANGED <<indexVars, cleanVars, fmtVars, siteVars>>

ParaNext == BreakParagraphByBr \/ ExtractLinksFromParagraphs \/ ReplaceMultipleBrTags

SpecPara == ParaInit /\ [][ParaNext]_vars

-----------------------------------------------------------------------------
(* IndexProcessor._extract_sectioned_index *)

HeadingNames == {"h1", "h2", "h3", "h4", "h5", "h6"}

\* find_all(names): the elements called one of names, in document order,
\* each with its name and its contents
RECURSIVE FindAll(_, _, _)
FindAll(tree, names, from) ==
    IF from > Len(tree) THEN <<>>
    ELSE IF tree[from].t = "open" /\ tree[from].name \in names
         THEN <<[name |-> tree[from].name,
                 contents |-> SubSeq(tree, from + 1, CloseOf(tree, from) - 1)]>>
              \o FindAll(tree, names, from + 1)
    ELSE FindAll(tree, names, from + 1)

\* current_section in sections
HasKey(d, key) == \E k \in 1..Len(d) : d[k].title = key

\* sections[key].extend(more)
Extend(d, key, more) ==
    [k \in 1..Len(d) |->
        IF d[k].title = key
        THEN [title |-> key, lessons |-> d[k].lessons \o more]
        ELSE d[k]]

\* a return that keeps the sections with no lessons
AllItems(d) == d

\* {k: v for k, v in sections.items() if v}
RECURSIVE NonEmptyItems(_)
NonEmptyItems(d) ==
    IF d = <<>> THEN <<>>
    ELSE (IF Head(d).lessons = <<>> THEN <<>> ELSE <<Head(d)>>)
         \o NonEmptyItems(Tail(d))

Uncategorized ==
    <<"U", "n", "c", "a", "t", "e", "g", "o", "r", "i", "z", "e", "d">>

\* the nodes an index tree is made of
Heading(n, title) == <<Open(n)>> \o TextOf(title) \o <<Close(n)>>
Para(contents) == <<Open("p")>> \o contents \o <<Close("p")>>

IndexNodes ==
    { Heading("h2", <<"A">>),
      Heading("h3", <<" ", "B">>),
      Para(<<OpenA(Href1)>> \o TextOf(<<"1", "KA", ":", "G">>) \o <<Close("a")>>),
      Para(<<Txt("x"), Br, Br, Txt("y")>>),
      <<Open("ul"), Close("ul")>> }

RECURSIVE NodeLists(_)
NodeLists(n) ==
    IF n = 0 THEN {<<>>}
    ELSE {<<>>} \cup {<<node>> \o l : node \in IndexNodes, l \in NodeLists(n - 1)}

IndexTrees == {Join(l) : l \in NodeLists(MaxElems)}

IndexInit ==
    /\ ParaIdle
    /\ CleanIdle
    /\ FmtIdle
    /\ SiteIdle
    /\ content_div \in IndexTrees
    /\ elements = FindAll(content_div, HeadingNames \cup {"p"}, 1)
    /\ elem_i = 1
    /\ sections = <<>>
    /\ current_section = Uncategorized
    /\ overall_lesson_counter = 1
    /\ lesson_dict = <<>>
    /\ index_pc = "loop"

\* one turn of the for loop, at a heading
VisitHeading ==
    /\ index_pc = "loop"
    /\ elem_i <= Len(elements)
    /\ elements[elem_i].name \in HeadingNames
    /\ LET title == GetTextStrip(elements[elem_i].contents) IN
        /\ current_section' = title
        /\ sections' = IF HasKey(sections, title) THEN sections
                       ELSE Append(sections, [title |-> title, lessons |-> <<>>])
    /\ elem_i' = elem_i + 1
    /\ UNCHANGED <<content_div, elements, overall_lesson_counter, lesson_dict, index_pc>>
    /\ UNCHANGED <<paraVars, cleanVars, fmtVars, siteVars>>

\* one turn of the for loop, at a paragraph
VisitParagraph ==
    /\ index_pc = "loop"
    /\ elem_i <= Len(elements)
    /\ elements[elem_i].name = "p"
    /\ LET ps == break_paragraph_by_br(elements[elem_i].contents)
           found == extract_links_from_paragraphs(ps, overall_lesson_counter)
       IN
        /\ sections' = IF HasKey(sections, current_section)
                       THEN Extend(sections, current_section, found)
                       ELSE sections
        /\ overall_lesson_counter' = overall_lesson_counter + Len(found)
    /\ elem_i' = elem_i + 1
    /\ UNCHANGED <<content_div, elements, current_section, lesson_dict, index_pc>>
    /\ UNCHANGED <<paraVars, cleanVars, fmtVars, siteVars>>

\* return {k: v for k, v in sections.items() if v}
ReturnIndex ==
    /\ index_pc = "loop"
    /\ elem_i > Len(elements)
    /\ lesson_dict' = NonEmptyItems(sections)
    /\ index_pc' = "extracted"
    /\ UNCHANGED <<content_div, elements, elem_i, sections, current_section,
                   overall_lesson_counter>>
    /\ UNCHANGED <<paraVars, cleanVars, fmtVars, siteVars>>

IndexNext == VisitHeading \/ VisitParagraph \/ ReturnIndex

SpecIndex == IndexInit /\ [][IndexNext]_vars

-----------------------------------------------------------------------------
(* HTMLCleaner *)

\* UNWANTED_SELECTORS, each a tag name and a class
UNWANTED_SELECTORS ==
    << [name |-> "div", class |-> "sharedaddy"],
       [name |-> "nav", class |-> "entry-breadcrumbs"],
       [name |-> "div", class |-> "wp-block-buttons"] >>

Selects(selector, tok) ==
    tok.t = "open" /\ tok.name = selector.name /\ tok.class = selector.class

\* for element in content_div.select(selector): element.decompose()
\* (an element inside one already decomposed is gone with it)
RECURSIVE DecomposeSelected(_, _, _)
DecomposeSelected(tree, selector, from) ==
    IF from > Len(tree) THEN tree
    ELSE IF Selects(selector, tree[from])
         THEN DecomposeSelected(Decompose(tree, from), selector, from)
    ELSE DecomposeSelected(tree, selector, from + 1)

\* HTMLCleaner._remove_unwanted_elements
RECURSIVE remove_unwanted_elements(_, _)
remove_unwanted_elements(tree, k) ==
    IF k > Len(UNWANTED_SELECTORS) THEN tree
    ELSE remove_unwanted_elements(
            DecomposeSelected(tree, UNWANTED_SELECTORS[k], 1), k + 1)

\* br_tag.decompose() for the <br/> tags of a_tag.find_all("br")
RECURSIVE WithoutBr(_)
WithoutBr(inner) ==
    IF inner = <<>> THEN <<>>
    ELSE (IF IsBr(Head(inner)) THEN <<Sep>> ELSE <<Head(inner)>>)
         \o WithoutBr(Tail(inner))

RECURSIVE CountBr(_)
CountBr(inner) ==
    IF inner = <<>> THEN 0
    ELSE (IF IsBr(Head(inner)) THEN 1 ELSE 0) + CountBr(Tail(inner))

\* a_tag.insert_after(new_br), n times
RECURSIVE NewBrs(_)
NewBrs(n) == IF n = 0 THEN <<>> ELSE <<Br>> \o NewBrs(n - 1)

\* a cleaner that moves only the first <br/> of each anchor
FixBrOfAnchorFirstOnly(tree, i) ==
    LET j == CloseOf(tree, i)
        inner == SubSeq(tree, i + 1, j - 1)
        b == CHOOSE b \in 1..(Len(inner) + 1) :
                /\ b <= Len(inner) => IsBr(inner[b])
                /\ \A c \in 1..(b - 1) : ~IsBr(inner[c])
    IN IF b > Len(inner) THEN tree
       ELSE SubSeq(tree, 1, i) \o SubSeq(inner, 1, b - 1) \o <<Sep>>
            \o SubSeq(inner, b + 1, Len(inner)) \o <<tree[j], Br>>
            \o SubSeq(tree, j + 1, Len(tree))

\* the inner loop of _fix_br_tags_in_links for the anchor opened at i
FixBrOfAnchor(tree, i) ==
    LET j == CloseOf(tree, i)
        inner == SubSeq(tree, i + 1, j - 1)
    IN SubSeq(tree, 1, i) \o WithoutBr(inner) \o <<tree[j]>>
       \o NewBrs(CountBr(inner)) \o SubSeq(tree, j + 1, Len(tree))

\* HTMLCleaner._fix_br_tags_in_links: the anchors in document order
RECURSIVE fix_br_tags_in_links(_, _)
fix_br_tags_in_links(tree, from) ==
    LET i == FindTag(tree, "a", from) IN
    IF i = 0 THEN tree
    ELSE fix_br_tags_in_links(FixBrOfAnchor(tree, i), i + 1)

\* HTMLCleaner._remove_empty_links: the anchors in document order (an anchor
\* inside one already decomposed is gone with it)
RECURSIVE remove_empty_links(_, _)
remove_empty_links(tree, from) ==
    LET i == FindTag(tree, "a", from) IN
    IF i = 0 THEN tree
    ELSE IF GetTextStrip(SubSeq(tree, i + 1, CloseOf(tree, i) - 1)) = <<>>
         THEN remove_empty_links(Decompose(tree, i), i)
    ELSE remove_empty_links(tree, i + 1)

\* a cleaner that deletes the anchors without text before it moves the
\* line breaks
clean_structure_links_first(tree) ==
    fix_br_tags_in_links(
        remove_empty_links(
            remove_unwanted_elements(tree, 1), 1), 1)

\* HTMLCleaner.clean_structure
clean_structure(tree) ==
    remove_empty_links(
        fix_br_tags_in_links(
            remove_unwanted_elements(tree, 1), 1), 1)

CleanLeaves == {Txt("x"), Txt(" "), Br}
CleanTags == {<<OpenA(Href1), Close("a")>>,
              <<OpenC("div", "sharedaddy"), Close("div")>>}

\* the balanced token sequences of exactly n tokens over text, <br/>, <a> and
\* a denylisted <div>
RECURSIVE CleanForest(_)
CleanForest(n) ==
    IF n = 0 THEN {<<>>}
    ELSE {<<l>> \o f : l \in CleanLeaves, f \in CleanForest(n - 1)}
         \cup (IF n < 2 THEN {}
               ELSE UNION {
                   {<<tag[1]>> \o f1 \o <<tag[2]>> \o f2 :
                        tag \in CleanTags,
                        f1 \in CleanForest(k), f2 \in CleanForest(n - 2 - k)}
                   : k \in 0..(n - 2)})

CleanTrees == UNION {CleanForest(n) : n \in 0..MaxCleanLen}

CleanInit ==
    /\ ParaIdle
    /\ IndexIdle
    /\ FmtIdle
    /\ SiteIdle
    /\ clean_src \in CleanTrees
    /\ clean_tree = clean_src
    /\ clean_first = <<>>
    /\ clean_calls = 0

\* content_div = self.cleaner.clean_structure(content_div), and once more on
\* its result
CleanStructure ==
    /\ clean_calls < 2
    /\ clean_tree' = clean_structure(clean_tree)
    /\ clean_first' = IF clean_calls = 0 THEN clean_tree' ELSE clean_first
    /\ clean_calls' = clean_calls + 1
    /\ UNCHANGED clean_src
    /\ UNCHANGED <<paraVars, indexVars, fmtVars, siteVars>>

CleanNext == CleanStructure

SpecClean == CleanInit /\ [][CleanNext]_vars

-----------------------------------------------------------------------------
(* ContentFormatter and LessonFormatter *)

\* the canonical site root of _fix_links
SiteRoot ==
    <<"h", "t", "t", "p", "s", ":", "/", "/", "i", "m", "a", "b", "i", ".",
    "o", "r", "g", "/">>

\* '../'
RelativeMarker ==
    <<".", ".", "/">>

\* two of the entries of HTMLCleaner.URL_REPLACEMENTS: a stale page and the
\* one entry mapped to the empty string
StaleHatsuon ==
    <<"h", "t", "t", "p", "s", ":", "/", "/", "w", "w", "w", ".", "i", "m",
    "a", "b", "i", ".", "n", "e", "t", "/", "h", "a", "t", "s", "u", "o", "n",
    ".", "h", "t", "m">>

FreshHatsuon ==
    <<"h", "t", "t", "p", "s", ":", "/", "/", "i", "m", "a", "b", "i", ".",
    "o", "r", "g", "/", "h", "a", "t", "s", "u", "o", "n", "/">>

StaleWpAdmin ==
    <<"h", "t", "t", "p", "s", ":", "/", "/", "i", "m", "a", "b", "i", ".",
    "o", "r", "g", "/", "w", "p", "-", "a", "d", "m", "i", "n", "/", "p", "o",
    "s", "t", ".", "p", "h", "p", "?", "p", "o", "s", "t", "=", "2", "2", "1",
    "&", "a", "m", "p", ";", "a", "c", "t", "i", "o", "n", "=", "e", "d", "i",
    "t", "#", "c", "c", "8", "3", "6", "5", "5", "4", "-", "5", "7", "3", "6",
    "-", "4", "e", "4", "8", "-", "a", "e", "f", "9", "-", "2", "7", "6", "5",
    "f", "c", "9", "8", "f", "c", "d", "9", "-", "l", "i", "n", "k">>

\* HTMLCleaner.URL_REPLACEMENTS (two of its entries); the table of the same
\* name in ContentFormatter is empty
URL_REPLACEMENTS == (StaleHatsuon :> FreshHatsuon) @@ (StaleWpAdmin :> <<>>)

HName(level) == <<"h1", "h2", "h3", "h4", "h5", "h6">>[level]

\* Tag.extract() of the element opened at i
ExtractAt(tree, i) ==
    SubSeq(tree, 1, i - 1) \o <<Sep>>
    \o SubSeq(tree, CloseOf(tree, i) + 1, Len(tree))

\* the element opened at i, its own tags included
ElementAt(tree, i) == SubSeq(tree, i, CloseOf(tree, i))

\* tag.name = to, for the element opened at i
RenameAt(tree, i, to) ==
    [k \in 1..Len(tree) |->
        IF k = i \/ k = CloseOf(tree, i)
        THEN [tree[k] EXCEPT !.name = to] ELSE tree[k]]

\* for tag in content.find_all(from): tag.name = to
RenameAll(tree, from, to) ==
    [k \in 1..Len(tree) |->
        IF tree[k].t \in {"open", "close"} /\ tree[k].name = from
        THEN [tree[k] EXCEPT !.name = to] ELSE tree[k]]

\* the loop of _adjust_heading_levels from level i down to 2
RECURSIVE AdjustFrom(_, _)
AdjustFrom(tree, i) ==
    IF i < 2 THEN tree
    ELSE AdjustFrom(RenameAll(tree, HName(i), HName(IF i + 1 < 6 THEN i + 1 ELSE 6)), i - 1)

\* the same loop run from level i up to 6
RECURSIVE AdjustUpFrom(_, _)
AdjustUpFrom(tree, i) ==
    IF i > 6 THEN tree
    ELSE AdjustUpFrom(RenameAll(tree, HName(i), HName(IF i + 1 < 6 THEN i + 1 ELSE 6)), i + 1)

adjust_heading_levels_ascending(tree) == AdjustUpFrom(tree, 2)

\* LessonFormatter._adjust_heading_levels
adjust_heading_levels(tree) == AdjustFrom(tree, 6)

\* content.find_all(re.compile(r"^h\d")): the first heading of the content
\* (the root element is content itself), 0 when none
RECURSIVE FirstHeading(_, _)
FirstHeading(tree, from) ==
    IF from > Len(tree) THEN 0
    ELSE IF tree[from].t = "open" /\ tree[from].name \in HeadingNames THEN from
    ELSE FirstHeading(tree, from + 1)

\* chapter[1:-1] if isinstance(chapter, str) else chapter
ChapterId(chapter) == SubSeq(chapter, 2, Len(chapter) - 1)

\* the tree with the token at i replaced
SetAt(tree, i, tok) ==
    SubSeq(tree, 1, i - 1) \o <<tok>> \o SubSeq(tree, i + 1, Len(tree))

\* tag["id"] = value, for the open tag at i
SetId(tree, i, value) == SetAt(tree, i, [tree[i] EXCEPT !.id = value])

\* content.insert(0, soup): soup becomes the first children of the root
InsertFirst(tree, soup) ==
    <<tree[1]>> \o soup \o SubSeq(tree, 2, Len(tree))

\* the header block of _setup_headers, parsed: chapter goes in as markup
HeaderBlock(chapter, first_header) ==
    <<Open("header"), OpenC("p", "chapter")>> \o TextOf(chapter)
    \o <<Close("p")>> \o Serialize(first_header) \o <<Close("header")>>

\* _setup_headers that leaves the first heading where it was
setup_headers_no_extract(tree, chapter, glossary) ==
    LET i == FirstHeading(tree, 2) IN
    IF i = 0 THEN tree
    ELSE IF glossary
    THEN SetId(RenameAt(tree, i, "h1"), i, <<"glossary">>)
    ELSE LET renamed == SetId(RenameAt(tree, i, "h2"), i,
                              <<"chapter-">> \o ChapterId(chapter))
             block == HeaderBlock(chapter, ElementAt(renamed, i))
         IN InsertFirst(renamed, block)

\* LessonFormatter._setup_headers (title is not used by the code)
setup_headers(tree, chapter, glossary) ==
    LET i == FirstHeading(tree, 2) IN
    IF i = 0 THEN tree
    ELSE IF glossary
    THEN SetId(RenameAt(tree, i, "h1"), i, <<"glossary">>)
    ELSE LET renamed == SetId(RenameAt(tree, i, "h2"), i,
                              <<"chapter-">> \o ChapterId(chapter))
             block == HeaderBlock(chapter, ElementAt(renamed, i))
         IN ExtractAt(InsertFirst(renamed, block), i + Len(block))

\* the <p> elements that replace a paragraph, one after the other
RECURSIVE AsParagraphs(_)
AsParagraphs(ps) ==
    IF ps = <<>> THEN <<>>
    ELSE Para(Head(ps)) \o AsParagraphs(Tail(ps))

\* ContentFormatter._strip_paragraphs: every <p> of find_all("p"), in
\* document order, is replaced by what _replace_multiple_br_tags builds
RECURSIVE strip_paragraphs(_, _)
strip_paragraphs(tree, from) ==
    LET i == FindTag(tree, "p", from) IN
    IF i = 0 THEN tree
    ELSE LET j == CloseOf(tree, i)
             new == AsParagraphs(
                        replace_multiple_br_tags(SubSeq(tree, i + 1, j - 1)))
         IN strip_paragraphs(
                SubSeq(tree, 1, i - 1) \o new \o SubSeq(tree, j + 1, Len(tree)),
                i + Len(new))

LowerCase ==
    <<"a", "b", "c", "d", "e", "f", "g", "h", "i", "j", "k", "l", "m", "n",
      "o", "p", "q", "r", "s", "t", "u", "v", "w", "x", "y", "z">>

UpperCase ==
    <<"A", "B", "C", "D", "E", "F", "G", "H", "I", "J", "K", "L", "M", "N",
      "O", "P", "Q", "R", "S", "T", "U", "V", "W", "X", "Y", "Z">>

\* str.lower() and str.upper() of one character
Lower(c) ==
    IF \E k \in 1..26 : UpperCase[k] = c
    THEN LowerCase[CHOOSE k \in 1..26 : UpperCase[k] = c] ELSE c

Upper(c) ==
    IF \E k \in 1..26 : LowerCase[k] = c
    THEN UpperCase[CHOOSE k \in 1..26 : LowerCase[k] = c] ELSE c

IsLetter(c) == Lower(c) # Upper(c)

LowerAll(s) == [k \in 1..Len(s) |-> Lower(s[k])]

\* U+25BC
HeadingGlyph == "SANKAKU"

\* the length of the longest prefix of text made of characters of class
RECURSIVE PrefixLen(_, _, _)
PrefixLen(text, class, n) ==
    IF n < Len(text) /\ text[n + 1] \in class
    THEN PrefixLen(text, class, n + 1) ELSE n

\* LIST_PATTERN.match(text): ^(\d+\.|[ivxlcdm]+\.|U+203B|U+30FB)
\* (KOME is U+203B, NAKAGURO is U+30FB)
ListPatternMatches(text) ==
    LET d == PrefixLen(text, {"0", "1", "2", "3", "4", "5", "6", "7", "8", "9"}, 0)
        r == PrefixLen(text, {"i", "v", "x", "l", "c", "d", "m"}, 0)
    IN \/ d > 0 /\ d < Len(text) /\ text[d + 1] = "."
       \/ r > 0 /\ r < Len(text) /\ text[r + 1] = "."
       \/ text # <<>> /\ text[1] \in {"KOME", "NAKAGURO"}

\* ContentFormatter._classify_paragraph, for the <p> opened at i
classify_paragraph(tree, i) ==
    LET text == LowerAll(GetTextStrip(SubSeq(tree, i + 1, CloseOf(tree, i) - 1)))
        classed == IF ListPatternMatches(text)
                   THEN SetAt(tree, i, [tree[i] EXCEPT !.class = "numerada"])
                   ELSE tree
    IN IF text # <<>> /\ text[1] = HeadingGlyph
       THEN RenameAt(classed, i, "h6") ELSE classed

\* ContentFormatter._process_paragraphs
RECURSIVE process_paragraphs(_, _)
process_paragraphs(tree, from) ==
    LET i == FindTag(tree, "p", from) IN
    IF i = 0 THEN tree
    ELSE process_paragraphs(classify_paragraph(tree, i), i + 1)

\* the href that _fix_links leaves in an anchor
FixedHref(href) ==
    IF href = <<>> THEN href
    ELSE IF StartsWith(href, SiteRoot)
         THEN Replace(href, SiteRoot, RelativeMarker)
    ELSE href

\* ContentFormatter._fix_links
fix_links(tree) ==
    [k \in 1..Len(tree) |->
        IF IsOpen(tree[k], "a")
        THEN [tree[k] EXCEPT !.href = FixedHref(tree[k].href)]
        ELSE tree[k]]

\* ContentFormatter._process_common_formatting
process_common_formatting(tree) ==
    fix_links(process_paragraphs(strip_paragraphs(tree, 2), 2))

\* content.find("ol", class_="wp-block-footnotes"), 0 when none
RECURSIVE FindFootnotes(_, _)
FindFootnotes(tree, from) ==
    IF from > Len(tree) THEN 0
    ELSE IF IsOpen(tree[from], "ol") /\ tree[from].class = "wp-block-footnotes"
         THEN from
    ELSE FindFootnotes(tree, from + 1)

\* LessonFormatter._wrap_final_content
wrap_final_content(tree, path_part) ==
    LET footer == FindTag(tree, "footer", 2)
        footnotes == FindFootnotes(tree, 2)
        footer_content ==
            IF footnotes # 0
            THEN <<Void("hr"), OpenC("footer", "footnote")>>
                 \o Serialize(ElementAt(tree, footnotes)) \o <<Close("footer")>>
            ELSE <<Open("footer"), Close("footer")>>
        \* if footnotes: footnotes.extract()
        t1 == IF footnotes # 0 THEN ExtractAt(tree, footnotes) ELSE tree
        \* the footer found before went away with the footnotes it was in
        gone == /\ footnotes # 0
                /\ footnotes < footer /\ footer < CloseOf(tree, footnotes)
        \* if footer: footer.extract()
        t2 == IF footer # 0 /\ ~gone
              THEN ExtractAt(t1, FindTag(t1, "footer", 2)) ELSE t1
        last == Len(t2)
        body == IF FindTag(t2, "body", 2) = 0
                THEN <<[t2[1] EXCEPT !.name = "body", !.class = "justified",
                                     !.id = path_part]>>
                     \o SubSeq(t2, 2, last - 1)
                     \o <<[t2[last] EXCEPT !.name = "body"]>>
                ELSE SetAt(t2, FindTag(t2, "body", 2),
                           [t2[FindTag(t2, "body", 2)]
                                EXCEPT !.class = "justified"])
    IN Serialize(body) \o footer_content

\* the output formatter of str(soup): & < > in text become entities
EscapeChar(c) ==
    CASE c = "&" -> "&amp;" [] c = "<" -> "&lt;" [] c = ">" -> "&gt;"
      [] OTHER -> c

\* text and attribute values as str() writes them
EscapeText(tree) ==
    [k \in 1..Len(tree) |->
        IF IsText(tree[k]) THEN Txt(EscapeChar(tree[k].name))
        ELSE [tree[k] EXCEPT !.href = [c \in 1..Len(@) |-> EscapeChar(@[c])]]]

\* str.title(): a letter after a letter is lowered, any other letter raised
TitleCase(s) ==
    [k \in 1..Len(s) |->
        IF k > 1 /\ IsLetter(s[k - 1]) THEN Lower(s[k]) ELSE Upper(s[k])]

\* ContentFormatter._wrap_xhtml: the document, its text as it is written
\* (clean_title and a str body go in as they are, a BeautifulSoup body
\* through str())
wrap_xhtml(content, title) ==
    LET clean_title ==
            TitleCase(Replace(Replace(title, <<".", "x", "h", "t", "m", "l">>, <<>>),
                              <<"-">>, <<" ">>))
    IN <<Void("?xml"), Void("!DOCTYPE"), Open("html"), Open("head"), Open("title")>>
       \o TextOf(clean_title)
       \o <<Close("title"), Void("link"), Close("head")>>
       \o EscapeText(Serialize(content))
       \o <<Close("html")>>

GlossaryTitle == <<"G", "l", "o", "s", "s", "a", "r", "y">>

FootnoteList ==
    <<OpenC("ol", "wp-block-footnotes"), Open("li"), Txt("n"), Close("li"),
      Close("ol")>>

\* the blocks a page is made of: a heading of each level (its text is its
\* level), a <header> holding a heading, paragraphs (one with a class and a
\* single line break), a footer, a footnote list
PageBlocks ==
    {Heading(HName(l), <<<<"1", "2", "3", "4", "5", "6">>[l]>>) : l \in 1..6}
    \cup {<<Open("header")>> \o Heading("h1", <<"0">>) \o <<Close("header")>>,
          Para(<<Txt("t")>>),
          Para(<<Txt(HeadingGlyph)>>),
          <<OpenC("p", "lead"), Txt("t"), Br, Close("p")>>,
          <<Open("footer"), Txt("f"), Close("footer")>>,
          FootnoteList}

RECURSIVE BlockLists(_)
BlockLists(n) ==
    IF n = 0 THEN {<<>>}
    ELSE {b \o rest : b \in PageBlocks, rest \in BlockLists(n - 1)}

\* soup.select_one("article")
Article(children) == <<Open("article")>> \o children \o <<Close("article")>>

BlockPages == {Article(bs) : bs \in UNION {BlockLists(n) : n \in 0..MaxBlocks}}

RECURSIVE TitlesOfLen(_)
TitlesOfLen(n) ==
    IF n = 0 THEN {<<>>}
    ELSE {<<c>> \o rest : c \in {"a", "&", "<", "-"}, rest \in TitlesOfLen(n - 1)}

Titles == UNION {TitlesOfLen(n) : n \in 0..MaxTitleLen}
TitlePage == Article(Para(<<Txt("&"), Txt("<"), Txt(">")>>))

RECURSIVE HrefsOf(_)
HrefsOf(n) ==
    IF n = 0 THEN {<<>>}
    ELSE {part \o rest : part \in {SiteRoot, <<"x", "/">>, <<"?", "u", "=">>}, rest \in HrefsOf(n - 1)}

Hrefs ==
    UNION {HrefsOf(n) : n \in 1..MaxHrefParts} \cup DOMAIN URL_REPLACEMENTS

LinkPages ==
    {Article(Para(<<OpenA(h), Txt("x"), Close("a")>>)) : h \in Hrefs}

\* the arguments of format_lesson as _process_single_lesson passes them
\* (lesson.title, lesson.original_number, the default path_part of an article
\* without an id) and as process_content passes them for the glossary
FmtInit ==
    /\ ParaIdle
    /\ IndexIdle
    /\ CleanIdle
    /\ SiteIdle
    /\ fmt_xhtml = <<>>
    /\ fmt_pc = "fetched"
    /\ \E page \in BlockPages \cup LinkPages \cup {TitlePage} :
            fmt_trace = <<page>>
    /\ is_glossary \in BOOLEAN
    /\ fmt_title \in IF is_glossary THEN {GlossaryTitle}
                     ELSE IF fmt_trace[1] = TitlePage THEN Titles
                     ELSE {<<"a">>}
    /\ fmt_chapter = IF is_glossary THEN <<"0">> ELSE <<"DAI", "1", "KA">>
    /\ fmt_path_part = IF is_glossary THEN <<"glossary">>
                       ELSE <<"lesson-", "lesson-001">>

content == fmt_trace[Len(fmt_trace)]

FmtStep(from, to, tree) ==
    /\ fmt_pc = from
    /\ fmt_pc' = to
    /\ fmt_trace' = Append(fmt_trace, tree)
    /\ UNCHANGED <<fmt_title, fmt_chapter, fmt_path_part, is_glossary, fmt_xhtml>>
    /\ UNCHANGED <<paraVars, indexVars, cleanVars, siteVars>>

\* main_div = self.cleaner.clean_structure(main_div)
FmtClean == FmtStep("fetched", "cleaned", clean_structure(content))

\* if not is_glossary and content.header: content.header.extract()
FmtExtractHeader ==
    FmtStep("cleaned", "entered",
            IF ~is_glossary /\ FindTag(content, "header", 2) # 0
            THEN ExtractAt(content, FindTag(content, "header", 2))
            ELSE content)

FmtAdjustHeadingLevels ==
    FmtStep("entered", "adjusted", adjust_heading_levels(content))

FmtSetupHeaders ==
    FmtStep("adjusted", "headed", setup_headers(content, fmt_chapter, is_glossary))

FmtCommonFormatting ==
    FmtStep("headed", "formatted", process_common_formatting(content))

FmtWrapFinalContent ==
    FmtStep("formatted", "wrapped", wrap_final_content(content, fmt_path_part))

\* return self._wrap_xhtml(final_content, title)
FmtWrapXhtml ==
    /\ fmt_pc = "wrapped"
    /\ fmt_pc' = "done"
    /\ fmt_xhtml' = wrap_xhtml(content, fmt_title)
    /\ UNCHANGED <<fmt_title, fmt_chapter, fmt_path_part, is_glossary, fmt_trace>>
    /\ UNCHANGED <<paraVars, indexVars, cleanVars, siteVars>>

FmtNext ==
    \/ FmtClean
    \/ FmtExtractHeader
    \/ FmtAdjustHeadingLevels
    \/ FmtSetupHeaders
    \/ FmtCommonFormatting
    \/ FmtWrapFinalContent
    \/ FmtWrapXhtml

SpecFormat == FmtInit /\ [][FmtNext]_vars

-----------------------------------------------------------------------------
(* ImabiProcessor.process_full_site *)

\* the longest list of lessons an index gives
MaxLessons == 2

\* config.test_lessons
TestLessons == 1

\* the global numbers the lessons of an index can carry
LessonNumbers == {1, 2, 1000}

\* what fetching a page and selecting its content element gives: the element,
\* an error of the request, or no element for the selector
PageOutcomes == {"ok", "fetch_error", "no_selector"}

\* the same for a lesson page, where formatting can raise as well
LessonOutcomes == {"ok", "fetch_error", "no_article", "format_error"}

\* a LessonData, with the page its link leads to: number, has_link, page
LessonRecords ==
    [number : LessonNumbers, has_link : {TRUE}, page : LessonOutcomes]
    \cup [number : LessonNumbers, has_link : {FALSE}, page : {"none"}]

\* the lessons of a returned mapping, section by section: up to n lessons, no
\* number twice, in any order (a repeated section title reorders them)
RECURSIVE LessonLists(_)
LessonLists(n) ==
    IF n = 0 THEN {<<>>}
    ELSE LessonLists(n - 1)
         \cup {Append(ls, l) : ls \in {x \in LessonLists(n - 1) : Len(x) = n - 1},
                               l \in LessonRecords}

DistinctNumbers(ls) ==
    \A i, j \in 1..Len(ls) : i # j => ls[i].number # ls[j].number

\* format(number, "d")
RECURSIVE Decimal(_)
Decimal(n) ==
    LET digit == <<"0", "1", "2", "3", "4", "5", "6", "7", "8", "9">>[(n % 10) + 1]
    IN IF n < 10 THEN <<digit>> ELSE Append(Decimal(n \div 10), digit)

\* the zero flag of a format specification: zeros in front up to width
RECURSIVE ZeroPad(_, _)
ZeroPad(s, width) ==
    IF Len(s) >= width THEN s ELSE ZeroPad(<<"0">> \o s, width)

\* an id that does not depend on the number
LessonIdConstant(number) == <<"lesson-", "0", "0", "0">>

\* an id padded to two digits
LessonIdTwoDigits(number) == <<"lesson-">> \o ZeroPad(Decimal(number), 2)

\* LessonData.id: f"lesson-{self.number:03d}"
LessonId(number) == <<"lesson-">> \o ZeroPad(Decimal(number), 3)

\* LessonData.filename
Filename(number) == LessonId(number) \o <<".xhtml">>

\* IndexProcessor._create_index_xhtml: the page of the index, as the href of
\* every list item in order (<<>> for an item without a link)
IndexXhtml(ls) ==
    [page |-> "index",
     of |-> 0,
     links |-> [k \in 1..Len(ls) |->
                    IF ls[k].has_link
                    THEN <<"../Text/">> \o Filename(ls[k].number) ELSE <<>>]]

\* the page format_lesson returns for the glossary
GlossaryXhtml == [page |-> "glossary", of |-> 0, links |-> <<>>]

\* the page format_lesson returns for the article of a lesson
LessonXhtml(lesson) ==
    [page |-> "lesson", of |-> lesson.number, links |-> <<>>]

\* d[key] = value on a dict kept as the list of its items in insertion order
RECURSIVE SetItem(_, _, _)
SetItem(d, key, value) ==
    IF d = <<>> THEN <<[key |-> key, value |-> value]>>
    ELSE IF Head(d).key = key
         THEN <<[key |-> key, value |-> value]>> \o Tail(d)
    ELSE <<Head(d)>> \o SetItem(Tail(d), key, value)

\* process_content never raises
RaisedNever(page) == ""

\* the exception process_content raises for a page, "" when it returns
Raised(page) ==
    IF page = "fetch_error" THEN "HTTPError"
    ELSE IF page = "no_selector" THEN "ValueError"
    ELSE ""

Configs == [generate_epub : BOOLEAN, test_mode : BOOLEAN]

SiteInit ==
    /\ ParaIdle
    /\ IndexIdle
    /\ CleanIdle
    /\ FmtIdle
    /\ config \in Configs
    /\ processed_content = <<>>
    /\ all_processed_images = <<>>
    /\ lesson_data = <<>>
    /\ lessons_to_process = <<>>
    /\ lesson_at = 0
    /\ fetch_log = <<>>
    /\ saved_files = <<>>
    /\ site_error = ""
    /\ site_result = ""
    /\ site_pc = "index"

\* process_full_site, lines 36-41: the index
ProcessIndex ==
    /\ site_pc = "index"
    /\ \E page \in PageOutcomes :
        /\ fetch_log' = Append(fetch_log, [what |-> <<"index">>, page |-> page])
        /\ IF Raised(page) # ""
           THEN /\ site_error' = Raised(page)
                /\ site_pc' = "raised"
                /\ UNCHANGED <<lesson_data, processed_content, all_processed_images>>
           ELSE /\ \E ls \in LessonLists(MaxLessons) :
                    /\ DistinctNumbers(ls)
                    /\ lesson_data' = ls
                    /\ processed_content' =
                        SetItem(processed_content, <<"index">>, IndexXhtml(ls))
                /\ all_processed_images' = Append(all_processed_images, <<"unknown">>)
                /\ site_pc' = "glossary"
                /\ UNCHANGED site_error
    /\ UNCHANGED <<config, lessons_to_process, lesson_at, saved_files, site_result>>
    /\ UNCHANGED <<paraVars, indexVars, cleanVars, fmtVars>>

\* process_full_site, lines 44-50: the glossary
ProcessGlossary ==
    /\ site_pc = "glossary"
    /\ \E page \in PageOutcomes :
        /\ fetch_log' = Append(fetch_log, [what |-> <<"glossary">>, page |-> page])
        /\ IF Raised(page) # ""
           THEN /\ site_error' = Raised(page)
                /\ site_pc' = "raised"
                /\ UNCHANGED <<processed_content, all_processed_images>>
           ELSE /\ processed_content' =
                    SetItem(processed_content, <<"glossary">>, GlossaryXhtml)
                /\ all_processed_images' = Append(all_processed_images, <<"glossary">>)
                /\ site_pc' = "select"
                /\ UNCHANGED site_error
    /\ UNCHANGED <<config, lesson_data, lessons_to_process, lesson_at, saved_files,
                   site_result>>
    /\ UNCHANGED <<paraVars, indexVars, cleanVars, fmtVars>>

\* _process_lessons, lines 115-119: the lessons with a link, cut to
\* test_lessons in test mode
SelectLessons ==
    /\ site_pc = "select"
    /\ LET linked == SelectSeq(lesson_data, LAMBDA l : l.has_link)
       IN lessons_to_process' =
            IF config.test_mode /\ Len(linked) > TestLessons
            THEN SubSeq(linked, 1, TestLessons) ELSE linked
    /\ lesson_at' = 1
    /\ site_pc' = "lessons"
    /\ UNCHANGED <<config, processed_content, all_processed_images, lesson_data,
                   fetch_log, saved_files, site_error, site_result>>
    /\ UNCHANGED <<paraVars, indexVars, cleanVars, fmtVars>>

\* one turn of the loop of _process_lessons: _process_single_lesson inside
\* try/except Exception
ProcessSingleLesson ==
    /\ site_pc = "lessons"
    /\ lesson_at <= Len(lessons_to_process)
    /\ LET lesson == lessons_to_process[lesson_at] IN
        /\ fetch_log' = Append(fetch_log, [what |-> LessonId(lesson.number),
                                           page |-> lesson.page])
        /\ all_processed_images' =
            IF lesson.page \in {"ok", "format_error"}
            THEN Append(all_processed_images, LessonId(lesson.number))
            ELSE all_processed_images
        /\ processed_content' =
            IF lesson.page = "ok"
            THEN SetItem(processed_content, LessonId(lesson.number),
                         LessonXhtml(lesson))
            ELSE processed_content
    /\ lesson_at' = lesson_at + 1
    /\ UNCHANGED <<config, lesson_data, lessons_to_process, saved_files,
                   site_error, site_result, site_pc>>
    /\ UNCHANGED <<paraVars, indexVars, cleanVars, fmtVars>>

\* _save_xhtml_files at any turn of the loop
SaveXhtmlFilesEarly ==
    /\ site_pc = "lessons"
    /\ saved_files' = [k \in 1..Len(processed_content) |->
                            processed_content[k].key \o <<".xhtml">>]
    /\ site_pc' = "epub"
    /\ UNCHANGED <<config, processed_content, all_processed_images, lesson_data,
                   lessons_to_process, lesson_at, fetch_log, site_error,
                   site_result>>
    /\ UNCHANGED <<paraVars, indexVars, cleanVars, fmtVars>>

\* _save_xhtml_files, once the loop is over
SaveXhtmlFiles ==
    /\ site_pc = "lessons"
    /\ lesson_at > Len(lessons_to_process)
    /\ saved_files' = [k \in 1..Len(processed_content) |->
                            processed_content[k].key \o <<".xhtml">>]
    /\ site_pc' = "epub"
    /\ UNCHANGED <<config, processed_content, all_processed_images, lesson_data,
                   lessons_to_process, lesson_at, fetch_log, site_error,
                   site_result>>
    /\ UNCHANGED <<paraVars, indexVars, cleanVars, fmtVars>>

\* process_full_site, lines 59-63: the name EPUBGenerator is bound nowhere in
\* imabi_processor.py, so line 60 raises NameError
GenerateEpub ==
    /\ site_pc = "epub"
    /\ IF config.generate_epub
       THEN /\ site_error' = "NameError"
            /\ site_pc' = "raised"
            /\ UNCHANGED site_result
       ELSE /\ site_result' = "None"
            /\ site_pc' = "done"
            /\ UNCHANGED site_error
    /\ UNCHANGED <<config, processed_content, all_processed_images, lesson_data,
                   lessons_to_process, lesson_at, fetch_log, saved_files>>
    /\ UNCHANGED <<paraVars, indexVars, cleanVars, fmtVars>>

SiteNext ==
    \/ ProcessIndex
    \/ ProcessGlossary
    \/ SelectLessons
    \/ ProcessSingleLesson
    \/ SaveXhtmlFiles
    \/ GenerateEpub

SpecSite == SiteInit /\ [][SiteNext]_vars

-----------------------------------------------------------------------------
(* C5: the splitters lose no text *)

\* the visible text of a tree: its strings, each trimmed, in document order
\* (line-break markers carry no text)
VisibleText(tree) == GetTextStrip(tree)

RECURSIVE VisibleTextOfAll(_)
VisibleTextOfAll(ps) ==
    IF ps = <<>> THEN <<>> ELSE VisibleText(Head(ps)) \o VisibleTextOfAll(Tail(ps))

EmSpansBreak(tree) ==
    \E i \in 1..Len(tree) :
        /\ IsOpen(tree[i], "em")
        /\ \E k \in (i + 1)..(CloseOf(tree, i) - 1) :
            /\ IsBr(tree[k])
            /\ VisibleText(SubSeq(tree, i + 1, k - 1)) # <<>>
            /\ VisibleText(SubSeq(tree, k + 1, CloseOf(tree, i) - 1)) # <<>>

-----------------------------------------------------------------------------
(* C6: the lesson marker *)

\* the position of the first "課:" of text, 0 when there is none
FirstDelimiter(text) ==
    IF \E i \in 1..Len(text) : MatchAt(text, LessonDelimiter, i)
    THEN CHOOSE i \in 1..Len(text) :
            /\ MatchAt(text, LessonDelimiter, i)
            /\ \A j \in 1..(i - 1) : ~MatchAt(text, LessonDelimiter, j)
    ELSE 0

LeftSegment(text) == StrStrip(SubSeq(text, 1, FirstDelimiter(text) - 1))
RightSegment(text) ==
    SubSeq(text, FirstDelimiter(text) + Len(LessonDelimiter), Len(text))

\* s without a leading ordinal glyph
StripLeadingGlyph(s) ==
    IF s # <<>> /\ Head(s) = OrdinalGlyph[1] THEN Tail(s) ELSE s

\* C6: for a sub-paragraph whose text contains "課:", the title is the trimmed
\* text right of the first delimiter, the normalized ordinal is the left
\* segment with the leading "第" stripped, and the displayNumber is the left
\* segment followed by "課"; the scenario paragraph yields lessons 1 and 2,
\* "第1課" and "第2課", "Greetings" and "Numbers".
C6_LessonMarkerParsed ==
    para_pc = "lessons" =>
        /\ \A k \in 1..Len(lessons) :
            LET text == GetTextStrip(paragraphs[k]) IN
            FirstDelimiter(text) # 0 =>
                /\ lessons[k].title = StrStrip(RightSegment(text))
                /\ lessons[k].lesson_number = StripLeadingGlyph(LeftSegment(text))
                /\ lessons[k].original_number = LeftSegment(text) \o MarkerGlyph
        /\ (paragraph = ScenarioParagraph /\ start_number = 1) =>
            /\ Len(lessons) = 2
            /\ lessons[1].number = 1 /\ lessons[2].number = 2
            /\ lessons[1].original_number = <<"DAI", "1", "KA">>
            /\ lessons[2].original_number = <<"DAI", "2", "KA">>
            /\ lessons[1].title = <<"G">> /\ lessons[2].title = <<"N">>

-----------------------------------------------------------------------------
(* C1: the global numbers of the returned lessons *)

\* the lessons of a mapping, section by section in its order
RECURSIVE AllLessons(_)
AllLessons(d) ==
    IF d = <<>> THEN <<>> ELSE Head(d).lessons \o AllLessons(Tail(d))

\* C1: reading the mapping returned by _extract_sectioned_index section by
\* section and lesson by lesson, the global numbers are exactly 1, 2, ..., N,
\* N the number of lessons returned, whatever the order of headings and
\* paragraphs of the tree.
C1_GlobalNumbersAre1toN ==
    index_pc = "extracted" =>
        \A k \in 1..Len(AllLessons(lesson_dict)) :
            AllLessons(lesson_dict)[k].number = k

-----------------------------------------------------------------------------
(* C2: clean_structure is idempotent *)

\* C2: applying clean_structure to the result of clean_structure changes
\* nothing: clean(clean(tree)) = clean(tree).
C2_CleanIdempotent ==
    clean_calls = 2 => clean_tree = clean_first

\* an anchor of the tree holds an anchor that holds a <br/>
NestedAnchorWithBr(tree) ==
    \E i \in 1..Len(tree) :
        /\ IsOpen(tree[i], "a")
        /\ \E k \in (i + 1)..(CloseOf(tree, i) - 1) :
            /\ IsOpen(tree[k], "a")
            /\ \E b \in (k + 1)..(CloseOf(tree, k) - 1) : IsBr(tree[b])

\* the cleaner has run twice on a tree with a <br/> in a nested anchor, and
\* its first run changed the tree
C2_Witness ==
    /\ clean_calls = 2
    /\ NestedAnchorWithBr(clean_src)
    /\ clean_first # clean_src
    /\ FindTag(clean_first, "a", 1) # 0

-----------------------------------------------------------------------------
(* C4: heading demotion *)

IsHeadingTag(tok) == tok.t \in {"open", "close"} /\ tok.name \in HeadingNames

LevelOf(tok) == CHOOSE l \in 1..6 : HName(l) = tok.name

\* C4: _adjust_heading_levels turns every heading of level L in 2..6 into a
\* heading of level min(L+1, 6), one step and no more, leaves the level-1
\* headings and everything else as they were, and makes no level above 6.
C4_HeadingDemotion ==
    Len(fmt_trace) >= 4 =>
        LET before == fmt_trace[3]
            after == fmt_trace[4]
        IN /\ Len(after) = Len(before)
           /\ \A k \in 1..Len(before) :
                IF IsHeadingTag(before[k])
                THEN LET l == LevelOf(before[k]) IN
                     /\ IsHeadingTag(after[k])
                     /\ after[k].t = before[k].t
                     /\ LevelOf(after[k]) = (IF l = 1 THEN 1
                                             ELSE IF l = 6 THEN 6 ELSE l + 1)
                ELSE after[k] = before[k]

\* a page with headings of two adjacent levels and a level-6 heading
C4_Witness ==
    /\ Len(fmt_trace) >= 4
    /\ FindTag(fmt_trace[3], "h2", 2) # 0
    /\ FindTag(fmt_trace[3], "h3", 2) # 0
    /\ FindTag(fmt_trace[3], "h6", 2) # 0
    /\ FindTag(fmt_trace[4], "h4", 2) # 0

-----------------------------------------------------------------------------
(* C3: the document that _wrap_xhtml returns *)

SpecialChars == {"&", "<"}

\* C3: the document returned by format_lesson has no raw '&' or '<' in its
\* text or in its attribute values, whatever the title and the text hold.
C3_WellFormedXml ==
    fmt_pc = "done" =>
        \A k \in 1..Len(fmt_xhtml) :
            /\ IsText(fmt_xhtml[k]) => fmt_xhtml[k].name \notin SpecialChars
            /\ \A c \in 1..Len(fmt_xhtml[k].href) :
                    fmt_xhtml[k].href[c] \notin SpecialChars

-----------------------------------------------------------------------------
(* C7, C8: the hrefs of the anchors *)

\* the anchors of a tree in document order: href and visible text of each
RECURSIVE Anchors(_, _)
Anchors(tree, from) ==
    LET i == FindTag(tree, "a", from) IN
    IF i = 0 THEN <<>>
    ELSE <<[href |-> tree[i].href,
            text |-> GetTextStrip(SubSeq(tree, i + 1, CloseOf(tree, i) - 1))]>>
         \o Anchors(tree, i + 1)

\* C7: after clean_structure and format_lesson an anchor whose href was a key
\* of the stale-link table has the mapped value as its href, and its visible
\* text is the one it had.
C7_StaleLinksRemapped ==
    fmt_pc = "done" =>
        LET before == Anchors(fmt_trace[1], 1)
            after == Anchors(fmt_trace[7], 1)
        IN /\ Len(after) = Len(before)
           /\ \A k \in 1..Len(before) :
                before[k].href \in DOMAIN URL_REPLACEMENTS =>
                    /\ after[k].href = URL_REPLACEMENTS[before[k].href]
                    /\ after[k].text = before[k].text

\* C8: _fix_links turns an href that begins with the site root into '../'
\* followed by the href without its first 18 characters; a later occurrence
\* of the site root in the href stays.
C8_OnlyLeadingRootReplaced ==
    Len(fmt_trace) >= 6 =>
        LET before == Anchors(fmt_trace[5], 1)
            after == Anchors(fmt_trace[6], 1)
        IN /\ Len(after) = Len(before)
           /\ \A k \in 1..Len(before) :
                StartsWith(before[k].href, SiteRoot) =>
                    after[k].href =
                        RelativeMarker
                        \o SubSeq(before[k].href, 19, Len(before[k].href))

-----------------------------------------------------------------------------
(* C9: the header block *)

\* kind and tag name of every token, attributes left out
Shape(tree) == [k \in 1..Len(tree) |-> <<tree[k].t, tree[k].name>>]

\* what is inside the element opened at i
ChildrenAt(tree, i) == SubSeq(tree, i + 1, CloseOf(tree, i) - 1)

\* how many headings of a tree hold exactly these children
RECURSIVE CountHeadings(_, _, _)
CountHeadings(tree, children, from) ==
    LET i == FirstHeading(tree, from) IN
    IF i = 0 THEN 0
    ELSE (IF Serialize(ChildrenAt(tree, i)) = children THEN 1 ELSE 0)
         + CountHeadings(tree, children, i + 1)

RECURSIVE CountTag(_, _, _)
CountTag(tree, n, from) ==
    LET i == FindTag(tree, n, from) IN
    IF i = 0 THEN 0 ELSE 1 + CountTag(tree, n, i + 1)

\* the <body> of the returned document, its own tags included
OutBody == ElementAt(fmt_xhtml, FindTag(fmt_xhtml, "body", 1))

\* the header block for a heading with these children: the chapter label
\* in a paragraph, then the heading at level 2
ExpectedHeaderBlock(children) ==
    <<Open("header"), Open("p")>> \o TextOf(fmt_chapter) \o <<Close("p")>>
    \o <<Open("h2")>> \o children \o <<Close("h2"), Close("header")>>

\* the returned body begins with the header block of the first heading of
\* page, and holds that heading as often as page does
HeaderBlockOf(page) ==
    LET children == Serialize(ChildrenAt(page, FirstHeading(page, 2)))
        block == ExpectedHeaderBlock(children)
    IN /\ Len(OutBody) > Len(block)
       /\ Shape(SubSeq(OutBody, 2, Len(block) + 1)) = Shape(block)
       /\ SubSeq(OutBody, 6 + Len(fmt_chapter), 5 + Len(fmt_chapter) + Len(children))
            = children
       /\ OutBody[5 + Len(fmt_chapter)].id = <<"chapter-">> \o ChapterId(fmt_chapter)
       /\ CountHeadings(OutBody, children, 2) = CountHeadings(page, children, 2)

\* the first heading of page is a level-1 heading in the returned body, where
\* it was, and the body has no header block that page did not have
GlossaryHeadingOf(page) ==
    LET i == FirstHeading(page, 2)
        headed == fmt_trace[5]
    IN /\ Len(headed) = Len(page)
       /\ IsOpen(headed[i], "h1")
       /\ FirstHeading(headed, 2) = i
       /\ \E k \in 2..Len(OutBody) :
            /\ IsOpen(OutBody[k], "h1")
            /\ OutBody[k].id = <<"glossary">>
            /\ ChildrenAt(OutBody, k) = Serialize(ChildrenAt(page, i))
       /\ CountTag(OutBody, "header", 2) = CountTag(page, "header", 2)

\* C9 read with the first heading of the page as it was fetched: the header
\* block of a lesson page holds that heading, the glossary keeps it in place
C9_FirstHeadingOfPage ==
    (fmt_pc = "done" /\ FirstHeading(fmt_trace[1], 2) # 0) =>
        IF is_glossary THEN GlossaryHeadingOf(fmt_trace[1])
        ELSE HeaderBlockOf(fmt_trace[1])

\* C9: for a page that is not the glossary and still has a heading once its
\* first <header> element is removed, the returned body begins with a header
\* block holding the chapter label and then the first remaining heading at
\* level 2, and that heading is in the output as often as it was in the page
\* (it left its place); for the glossary the first heading becomes level 1
\* where it is and no header block is added.
C9_HeaderPromotion ==
    (fmt_pc = "done" /\ FirstHeading(fmt_trace[3], 2) # 0) =>
        IF is_glossary THEN GlossaryHeadingOf(fmt_trace[3])
        ELSE HeaderBlockOf(fmt_trace[3])

\* a lesson page with a <header> of its own, then an h3, then a footnote list
C9_Witness ==
    /\ fmt_pc = "done"
    /\ ~is_glossary
    /\ fmt_trace[1] =
            Article(<<Open("header")>> \o Heading("h1", <<"0">>)
                    \o <<Close("header")>> \o Heading("h3", <<"3">>)
                    \o FootnoteList)
    /\ IsOpen(OutBody[2], "header")
    /\ FindTag(OutBody, "h2", 2) # 0

-----------------------------------------------------------------------------
(* C10: the footer *)

\* C10: the returned document has one footer element, after the body; with a
\* footnote list in the page the footer follows a divider and holds the list,
\* and the body has no footnote list; without one the footer is empty.
C10_ExactlyOneFooter ==
    fmt_pc = "done" =>
        LET page == fmt_trace[1]
            f == FindTag(fmt_xhtml, "footer", 1)
            notes == FindFootnotes(page, 2)
        IN /\ CountTag(fmt_xhtml, "footer", 1) = 1
           /\ f > CloseOf(fmt_xhtml, FindTag(fmt_xhtml, "body", 1))
           /\ FindFootnotes(OutBody, 1) = 0
           /\ IF notes # 0
              THEN /\ fmt_xhtml[f - 1] = Void("hr")
                   /\ ChildrenAt(fmt_xhtml, f) = ElementAt(page, notes)
              ELSE ChildrenAt(fmt_xhtml, f) = <<>>

-----------------------------------------------------------------------------
(* C14: the sections of the returned mapping *)

\* the position in elements of the heading that opened the section the k-th
\* element stands in, 0 before the first heading
RECURSIVE OpeningHeading(_)
OpeningHeading(k) ==
    IF k = 0 THEN 0
    ELSE IF elements[k].name \in HeadingNames THEN k
    ELSE OpeningHeading(k - 1)

TitleAt(k) == GetTextStrip(elements[k].contents)

\* how many sub-paragraphs the paragraphs among the first k elements give to
\* the section called title
RECURSIVE LessonsUnder(_, _)
LessonsUnder(title, k) ==
    IF k = 0 THEN 0
    ELSE LessonsUnder(title, k - 1)
         + (IF /\ elements[k].name = "p"
               /\ OpeningHeading(k) # 0
               /\ TitleAt(OpeningHeading(k)) = title
            THEN Len(break_paragraph_by_br(elements[k].contents)) ELSE 0)

\* where a title is first seen among the headings
FirstSeen(title) ==
    CHOOSE k \in 1..Len(elements) :
        /\ elements[k].name \in HeadingNames /\ TitleAt(k) = title
        /\ \A j \in 1..(k - 1) :
            ~(elements[j].name \in HeadingNames /\ TitleAt(j) = title)

\* C14: the returned mapping has one key for each distinct trimmed heading
\* text that received a lesson, in the order the titles were first seen; no
\* key has an empty list; the lessons of a title seen again are added at the
\* end of the list the title already has.
C14_SectionsOfMapping ==
    index_pc = "extracted" =>
        /\ \A i, j \in 1..Len(lesson_dict) :
            i < j => /\ lesson_dict[i].title # lesson_dict[j].title
                     /\ FirstSeen(lesson_dict[i].title)
                            < FirstSeen(lesson_dict[j].title)
        /\ {lesson_dict[i].title : i \in 1..Len(lesson_dict)}
            = {TitleAt(k) : k \in {h \in 1..Len(elements) :
                    /\ elements[h].name \in HeadingNames
                    /\ LessonsUnder(TitleAt(h), Len(elements)) > 0}}
        /\ \A i \in 1..Len(lesson_dict) :
            LET found == lesson_dict[i].lessons IN
            /\ found # <<>>
            /\ Len(found) = LessonsUnder(lesson_dict[i].title, Len(elements))
            /\ \A a, b \in 1..Len(found) :
                a < b => found[a].number < found[b].number

\* a title seen twice, with lessons both times, and a section left empty
C14_Witness ==
    /\ index_pc = "extracted"
    /\ Len(sections) > Len(lesson_dict)
    /\ \E i, j \in 1..(Len(elements) - 1) :
        /\ i < j
        /\ elements[i].name \in HeadingNames
        /\ elements[j].name \in HeadingNames
        /\ TitleAt(i) = TitleAt(j)
        /\ elements[i + 1].name = "p"
        /\ elements[j + 1].name = "p"
        /\ \E s \in 1..Len(lesson_dict) : lesson_dict[s].title = TitleAt(i)

-----------------------------------------------------------------------------
(* C16: a sub-paragraph without the lesson marker *)

-----------------------------------------------------------------------------
(* C18: the link of a lesson *)

\* the site-host prefix of the hrefs of the model, "h://i.org/"
SiteHostPrefix == <<"h", ":", "/", "/", "i">> \o OrgHost

\* C18: a sub-paragraph with an anchor gives a lesson whose remoteURL is the
\* href of the first anchor and whose relativePath is that href without the
\* site-host prefix when it starts with the prefix, the href itself when it
\* does not; a sub-paragraph with no anchor gives a lesson with no link.
C18_LinkOfFirstAnchor ==
    para_pc = "lessons" =>
        \A k \in 1..Len(lessons) :
            LET i == FindTag(paragraphs[k], "a", 1)
                href == paragraphs[k][i].href
            IN IF i = 0 THEN ~lessons[k].link_data.present
               ELSE /\ lessons[k].link_data.present
                    /\ lessons[k].link_data.web = href
                    /\ lessons[k].link_data.relative =
                        (IF StartsWith(href, SiteHostPrefix)
                         THEN SubSeq(href, Len(SiteHostPrefix) + 1, Len(href))
                         ELSE href)

-----------------------------------------------------------------------------
(* C17: every sub-paragraph becomes one lesson *)

\* the number of non-empty sub-paragraphs of the paragraphs among the first
\* k elements of the tree
RECURSIVE SubParagraphCount(_)
SubParagraphCount(k) ==
    IF k = 0 THEN 0
    ELSE SubParagraphCount(k - 1)
         + (IF elements[k].name = "p"
            THEN Len(break_paragraph_by_br(elements[k].contents)) ELSE 0)

\* C17: every non-empty sub-paragraph of every paragraph of the index tree
\* becomes exactly one lesson of the returned mapping, in the section opened
\* by the most recent preceding heading: the mapping holds as many lessons as
\* the tree has non-empty sub-paragraphs, and every section holds as many as
\* the paragraphs under its headings have.
C17_EverySubParagraphOneLesson ==
    index_pc = "extracted" =>
        /\ Len(AllLessons(lesson_dict)) = SubParagraphCount(Len(elements))
        /\ \A s \in 1..Len(lesson_dict) :
            Len(lesson_dict[s].lessons)
                = LessonsUnder(lesson_dict[s].title, Len(elements))

-----------------------------------------------------------------------------
(* C20: the reflow and empty paragraphs *)

\* C20: when the paragraph holds a run of two or more line breaks, so that
\* the reflow cuts it, no paragraph that the reflow emits is empty after
\* trimming: a segment before a leading run or after a trailing run is dropped.
C20_NoEmptyParagraphEmitted ==
    (para_pc = "reflowed" /\ Len(reflowed) > 1) =>
        \A k \in 1..Len(reflowed) : MarkupStrip(reflowed[k]) # <<>>

-----------------------------------------------------------------------------
(* C19: paragraphs that the reflow has nothing to cut *)

\* no run of two or more line breaks begins anywhere in this markup
NoBreakRun(html) ==
    \A n \in 1..Len(html) : BrRun(SubSeq(html, n, Len(html)), 0, 0) = 0

\* C19: a paragraph of the content whose children hold no run of two or more
\* line breaks is, after the common formatting of format_lesson, still one
\* paragraph with the same class and id and the same children (the formula
\* lets the paragraph classifier set its class or make it an h6).
C19_ParagraphWithoutRunKept ==
    Len(fmt_trace) >= 6 =>
        LET before == fmt_trace[5]
            after == fmt_trace[6]
        IN \A k \in 1..Len(before) :
            (IsOpen(before[k], "p") /\ NoBreakRun(ChildrenAt(before, k))) =>
                \E j \in 1..Len(after) :
                    /\ after[j].t = "open"
                    /\ after[j].name \in {"p", "h6"}
                    /\ after[j].id = before[k].id
                    /\ after[j].class \in {before[k].class, "numerada"}
                    /\ Shape(ChildrenAt(after, j)) = Shape(ChildrenAt(before, k))

-----------------------------------------------------------------------------
(* C11: the content map and the order of the lessons *)

\* the loop of _process_lessons is over
LessonLoopOver ==
    \/ site_pc \in {"epub", "done"}
    \/ site_pc = "raised" /\ site_error = "NameError"

\* the items of the content map other than the index and the glossary
LessonItems ==
    {processed_content[k] :
        k \in {i \in 1..Len(processed_content) :
                processed_content[i].key \notin {<<"index">>, <<"glossary">>}}}

\* the lessons of the loop whose processing succeeded, as a set
Succeeded ==
    {lessons_to_process[k] :
        k \in {i \in 1..Len(lessons_to_process) : lessons_to_process[i].page = "ok"}}

\* C11: when the lessons have been processed, in whatever order the list
\* holds them, the content map has exactly one item per lesson that succeeded,
\* under that lesson's id and holding that lesson's page: no key twice, as
\* many lesson items as distinct numbers that succeeded, and the items are
\* the set that the set of succeeded lessons determines.
C11_ContentMapOrderInsensitive ==
    LessonLoopOver =>
        /\ \A i, j \in 1..Len(processed_content) :
            i # j => processed_content[i].key # processed_content[j].key
        /\ LessonItems =
            {[key |-> <<"lesson-">> \o ZeroPad(Decimal(l.number), 3),
              value |-> LessonXhtml(l)] : l \in Succeeded}
        /\ Cardinality(LessonItems) = Cardinality({l.number : l \in Succeeded})

\* two lessons succeeded, the one with the larger number first
C11_Witness ==
    /\ LessonLoopOver
    /\ Len(lessons_to_process) = 2
    /\ lessons_to_process[1].page = "ok"
    /\ lessons_to_process[2].page = "ok"
    /\ lessons_to_process[1].number > lessons_to_process[2].number
    /\ Cardinality(LessonItems) = 2

-----------------------------------------------------------------------------
(* C15: the identifier of a lesson *)

\* the number a string of decimal digits writes
RECURSIVE DigitsValue(_)
DigitsValue(s) ==
    IF s = <<>> THEN 0
    ELSE 10 * DigitsValue(SubSeq(s, 1, Len(s) - 1))
         + (CHOOSE d \in 0..9 :
                <<"0", "1", "2", "3", "4", "5", "6", "7", "8", "9">>[d + 1] = s[Len(s)])

\* the index page stored in the content map
StoredIndex ==
    processed_content[CHOOSE k \in 1..Len(processed_content) :
                        processed_content[k].key = <<"index">>].value

\* the identifier that the cross-link of item k of the index page points to:
\* the href without "../Text/" and ".xhtml"
LinkedId(k) == SubSeq(StoredIndex.links[k], 2, Len(StoredIndex.links[k]) - 1)

\* item k of the index page links to "../Text/<id>.xhtml", the id is
\* "lesson-" and the digits of the lesson's number, and the page of the
\* lesson, once stored and saved, is under that id
IdentifierAgrees(k) ==
    LET link == StoredIndex.links[k]
        id == LinkedId(k)
    IN /\ link[1] = "../Text/"
       /\ link[Len(link)] = ".xhtml"
       /\ id[1] = "lesson-"
       /\ DigitsValue(Tail(id)) = lesson_data[k].number
       /\ \A j \in 1..Len(lesson_data) :
            (j # k /\ lesson_data[j].has_link) => LinkedId(j) # id
       /\ \A i \in 1..Len(processed_content) :
            (/\ processed_content[i].value.page = "lesson"
             /\ processed_content[i].value.of = lesson_data[k].number)
            => /\ processed_content[i].key = id
               /\ saved_files # <<>> => saved_files[i] = id \o <<".xhtml">>

\* C15 as stated: the identifier is "lesson-" and the number zero-padded to
\* exactly three digits; the filename is the identifier and ".xhtml"; no two
\* numbers share an identifier; the key of a lesson's page in the content map
\* is the identifier its cross-link in the index page points to.
C15_FixedWidthThreeDigits ==
    site_pc \notin {"idle", "index", "raised"} =>
        \A k \in 1..Len(lesson_data) :
            lesson_data[k].has_link =>
                /\ IdentifierAgrees(k)
                /\ Len(Tail(LinkedId(k))) = 3

\* C15 amended: the same with the number zero-padded to at least three
\* digits: three digits up to 999, the digits of the number from 1000 on.
C15_AtLeastThreeDigits ==
    site_pc \notin {"idle", "index", "raised"} =>
        \A k \in 1..Len(lesson_data) :
            lesson_data[k].has_link =>
                /\ IdentifierAgrees(k)
                /\ Len(Tail(LinkedId(k))) >= 3
                /\ Len(Tail(LinkedId(k))) > 3 => LinkedId(k)[2] # "0"

\* the pages of lesson 1000 and of a lesson with a one-digit number are
\* stored and saved
C15_Witness ==
    /\ site_pc = "done"
    /\ \E i, j \in 1..Len(processed_content) :
        /\ processed_content[i].value.page = "lesson"
        /\ processed_content[i].value.of = 1000
        /\ saved_files[i] = <<"lesson-", "1", "0", "0", "0", ".xhtml">>
        /\ processed_content[j].value.page = "lesson"
        /\ processed_content[j].value.of < 10
        /\ Len(saved_files[j]) = 5

-----------------------------------------------------------------------------
(* C13: a failure of the index or of the glossary *)

\* the index page or the glossary page could not be fetched, or had no
\* element for its selector
IndexOrGlossaryFailed ==
    \E k \in 1..Len(fetch_log) :
        /\ fetch_log[k].what \in {<<"index">>, <<"glossary">>}
        /\ fetch_log[k].page # "ok"

\* C13: once the processing of the index or of the glossary has failed (a
\* missing selector raises ValueError), process_full_site has ended with that
\* error: no lesson page has been fetched or formatted, no file has been
\* saved, and nothing has been returned or generated.
C13_IndexOrGlossaryFailureIsFatal ==
    IndexOrGlossaryFailed =>
        /\ site_pc = "raised"
        /\ site_error \in {"HTTPError", "ValueError"}
        /\ fetch_log[Len(fetch_log)].page = "no_selector" => site_error = "ValueError"
        /\ \A k \in 1..Len(fetch_log) :
            fetch_log[k].what \in {<<"index">>, <<"glossary">>}
        /\ \A i \in 1..Len(processed_content) :
            processed_content[i].value.page # "lesson"
        /\ \A i \in 1..Len(all_processed_images) :
            all_processed_images[i] \in {<<"unknown">>, <<"glossary">>}
        /\ lessons_to_process = <<>>
        /\ saved_files = <<>>
        /\ site_result = ""

\* the index gave a lesson with a link to a good page, and the glossary page
\* had no article element
C13_Witness ==
    /\ site_pc = "raised"
    /\ site_error = "ValueError"
    /\ Len(fetch_log) = 2
    /\ fetch_log[2] = [what |-> <<"glossary">>, page |-> "no_selector"]
    /\ \E k \in 1..Len(lesson_data) :
        lesson_data[k].has_link /\ lesson_data[k].page = "ok"

-----------------------------------------------------------------------------
(* C12: a failure of one lesson *)

\* a lesson of the loop failed: its page could not be fetched, had no
\* article, or made the formatting raise
SomeLessonFailed ==
    \E k \in 1..Len(fetch_log) :
        /\ fetch_log[k].what \notin {<<"index">>, <<"glossary">>}
        /\ fetch_log[k].page # "ok"

\* every selected lesson was attempted, in the order of the index, and every
\* lesson that succeeded has its page in the content map
EveryLessonAttempted ==
    /\ Len(fetch_log) = 2 + Len(lessons_to_process)
    /\ \A k \in 1..Len(lessons_to_process) :
        /\ DigitsValue(Tail(fetch_log[2 + k].what)) = lessons_to_process[k].number
        /\ lessons_to_process[k].page = "ok" =>
            \E i \in 1..Len(processed_content) :
                processed_content[i].value = LessonXhtml(lessons_to_process[k])

\* C12: when a lesson has failed and process_full_site is over, every
\* selected lesson was attempted in index order, the pages of the lessons
\* that succeeded are in the content map, one file per item of the map has
\* been saved, and the EPUB that the configuration asks for has been built.
C12_LessonFailureDoesNotAbort ==
    (SomeLessonFailed /\ site_pc \in {"done", "raised"}) =>
        /\ EveryLessonAttempted
        /\ Len(saved_files) = Len(processed_content)
        /\ config.generate_epub => site_result = "epub"

-----------------------------------------------------------------------------
(* C21: line breaks inside anchors *)

\* token k of the tree is inside an element whose open tag satisfies P
Inside(tree, k, P(_)) ==
    \E i \in 1..(k - 1) : P(tree[i]) /\ CloseOf(tree, i) > k

Denylisted(tok) ==
    \E s \in 1..Len(UNWANTED_SELECTORS) :
        /\ tok.t = "open"
        /\ tok.name = UNWANTED_SELECTORS[s].name
        /\ tok.class = UNWANTED_SELECTORS[s].class

IsAnchor(tok) == tok.t = "open" /\ tok.name = "a"

\* the line breaks of the tree that are in no denylisted node
BreaksKept(tree) ==
    Cardinality({k \in 1..Len(tree) :
                    IsBr(tree[k]) /\ ~Inside(tree, k, Denylisted)})

\* the open tags of the anchors of the tree, in document order
RECURSIVE AnchorList(_, _)
AnchorList(tree, from) ==
    IF from > Len(tree) THEN <<>>
    ELSE (IF IsAnchor(tree[from]) THEN <<from>> ELSE <<>>)
         \o AnchorList(tree, from + 1)

\* no denylisted node, no anchor in an anchor, no anchor without text: the
\* cleaner removes no element of such a tree
KeepsEveryAnchor(tree) ==
    \A k \in 1..Len(tree) :
        /\ ~Denylisted(tree[k])
        /\ IsAnchor(tree[k]) =>
            /\ ~Inside(tree, k, IsAnchor)
            /\ GetTextStrip(ChildrenAt(tree, k)) # <<>>

\* C21: after clean_structure no anchor holds a line break; the tree has as
\* many line breaks as the fetched tree had outside denylisted nodes, also
\* when an anchor that held one was deleted for having no text; and where
\* every anchor stays, each is followed at once by as many line breaks as it
\* held.
C21_BreaksMovedOutOfAnchors ==
    clean_calls >= 1 =>
        /\ \A k \in 1..Len(clean_first) :
            IsBr(clean_first[k]) => ~Inside(clean_first, k, IsAnchor)
        /\ CountBr(clean_first) = BreaksKept(clean_src)
        /\ KeepsEveryAnchor(clean_src) =>
            LET before == AnchorList(clean_src, 1)
                after == AnchorList(clean_first, 1)
            IN /\ Len(after) = Len(before)
               /\ \A n \in 1..Len(before) :
                    \A m \in 1..CountBr(ChildrenAt(clean_src, before[n])) :
                        /\ CloseOf(clean_first, after[n]) + m <= Len(clean_first)
                        /\ IsBr(clean_first[CloseOf(clean_first, after[n]) + m])

\* an anchor that held a line break and no text was deleted, and its line
\* break is in the tree
C21_Witness ==
    /\ clean_calls >= 1
    /\ \E i \in 1..Len(clean_src) :
        /\ IsAnchor(clean_src[i])
        /\ CountBr(ChildrenAt(clean_src, i)) > 0
        /\ GetTextStrip(ChildrenAt(clean_src, i)) = <<>>
        /\ ~Inside(clean_src, i, Denylisted)
    /\ AnchorList(clean_first, 1) = <<>>
    /\ CountBr(clean_first) > 0

-----------------------------------------------------------------------------
(* C22: the order of the phases *)

\* the place of a position of process_full_site in the order of its phases
PhaseRank(pc) ==
    CASE pc = "index" -> 1
      [] pc = "glossary" -> 2
      [] pc = "select" -> 3
      [] pc = "lessons" -> 4
      [] pc = "epub" -> 5
      [] pc \in {"done", "raised"} -> 6

\* a lesson page has been asked of the fetcher
LessonFetched ==
    \E k \in 1..Len(fetch_log) :
        fetch_log[k].what \notin {<<"index">>, <<"glossary">>}

\* what the phases that have happened have left, in their order
PhasesInOrder ==
    /\ \A k \in 1..Len(fetch_log) :
        /\ k = 1 <=> fetch_log[k].what = <<"index">>
        /\ k = 2 <=> fetch_log[k].what = <<"glossary">>
    /\ LessonFetched =>
        /\ Len(processed_content) >= 2
        /\ processed_content[1] = [key |-> <<"index">>, value |-> IndexXhtml(lesson_data)]
        /\ processed_content[2].key = <<"glossary">>
        /\ \A k \in 1..Len(lessons_to_process) :
            \E i \in 1..Len(lesson_data) : lesson_data[i] = lessons_to_process[k]
    /\ saved_files # <<>> =>
        /\ Len(fetch_log) = 2 + Len(lessons_to_process)
        /\ Len(saved_files) = Len(processed_content)
    /\ (site_pc \in {"epub", "done"} \/ site_error = "NameError") =>
        saved_files # <<>>
    /\ site_result # "" => site_pc = "done"

\* C22: in every run of process_full_site the index is extracted and its page
\* stored before any lesson is fetched or formatted, and the phases come in
\* the order index, glossary, lessons, saving of the files, EPUB step: no step
\* goes back to an earlier phase, and once a lesson has been fetched the
\* lessons of the index and its stored page do not change.
C22_PhaseOrder ==
    /\ [](site_pc # "idle" => PhasesInOrder)
    /\ [][/\ PhaseRank(site_pc') >= PhaseRank(site_pc)
          /\ LessonFetched' =>
                /\ lesson_data' = lesson_data
                /\ processed_content'[1] = processed_content[1]]_vars

\* a run that went through every phase: two lessons fetched, the files
\* saved, the EPUB step reached
C22_Witness ==
    /\ site_pc \in {"done", "raised"}
    /\ Len(fetch_log) = 4
    /\ Len(saved_files) >= 3
    /\ site_error \in {"", "NameError"}

-----------------------------------------------------------------------------
(* C23: the cross-links of the index page *)

\* C23: when process_full_site is over, every cross-link of the index page,
\* "../Text/<lesson id>.xhtml", names a lesson id that is a key of the content
\* map, also in test mode and when the processing of a lesson failed.
C23_CrossLinksHaveFragments ==
    (site_pc = "done" \/ (site_pc = "raised" /\ site_error = "NameError")) =>
        \A k \in 1..Len(StoredIndex.links) :
            StoredIndex.links[k] # <<>> =>
                \E i \in 1..Len(processed_content) :
                    processed_content[i].key = LinkedId(k)

====
